---------------------------- MODULE Spec2Model ----------------------------
(***************************************************************************)
(* File-integrity monitor (FIM) baseline/diff engine, in its two variants: *)
(*   plain       src/fim/agents/fim-agent.py                               *)
(*   prometheus  src/fim/agents/fim-agent-prometheus.py                    *)
(*                                                                         *)
(* Paths and rules are strings, modelled as sequences of one-character     *)
(* strings so that startswith / endswith / slicing are computed as Python  *)
(* computes them.  A snapshot (a Python dict keyed by path, insertion      *)
(* ordered) is a sequence of entries with pairwise distinct "file" fields. *)
(* Timestamps taken from datetime.now() ('timestamp', 'scanned_at') are    *)
(* not modelled; no decision of the code reads them.                       *)
(***************************************************************************)
EXTENDS Integers, Sequences, FiniteSets, TLC

VARIABLES
    \* ---- path classifier, applied to one drawn input (SpecClassify)
    c_path, c_excluded, c_monitored, c_pc, c_result, c_is_excluded,
    \* ---- diff engine, applied to two drawn snapshots (SpecDiff)
    d_baseline, d_current, d_pc, d_changes, d_text, d_reloaded, d_rediff,
    \* ---- the metrics of a scan (SpecMetrics): the changes a scan found, the
    \*      position in scan_files, the counter; m_before and m_completed are
    \*      the counter when the cycle began and after the last completed one
    m_changes, m_pc, m_i, m_cycles, fim_events_total, m_before, m_completed,
    \* ---- one scan of each variant over the same inputs (SpecEquiv): the
    \*      (kind, path) records of perform_scan and of scan_files
    e_pc, e_plain, e_prom,
    \* ---- the webhook receiver (SpecWebhook): the alerts of one POST, the
    \*      position in the batch, the playbooks run, the status answered
    w_alerts, w_pc, w_i, w_invoked, w_response,
    \* ---- the agent (Spec): configuration
    variant, monitored_paths, excluded_paths,
    \* ---- the agent: environment
    fs, events,
    \* ---- the agent: persisted files
    baseline_file, report_file,
    \* ---- the agent: process state
    pc, running, idx, all_hashes, baseline, changes, cycle, restarts,
    \* ---- the agent: history of the running cycle (not program state)
    hist

clsVars   == <<c_path, c_excluded, c_monitored, c_pc, c_result, c_is_excluded>>
diffVars  == <<d_baseline, d_current, d_pc, d_changes, d_text, d_reloaded,
               d_rediff>>
cfgVars   == <<variant, monitored_paths, excluded_paths>>
envVars   == <<fs, events>>
diskVars  == <<baseline_file, report_file>>
procVars  == <<pc, running, idx, all_hashes, baseline, changes, cycle, restarts>>
agentVars == <<cfgVars, envVars, diskVars, procVars, hist>>
metVars   == <<m_changes, m_pc, m_i, m_cycles, fim_events_total, m_before,
               m_completed>>
eqVars    == <<e_pc, e_plain, e_prom>>
webVars   == <<w_alerts, w_pc, w_i, w_invoked, w_response>>
vars      == <<clsVars, diffVars, metVars, eqVars, webVars, agentVars>>

-----------------------------------------------------------------------------
(* Bounds of the model *)

\* file contents are 1..MaxContent
MaxContent == 2
\* exclusion lists and monitored-root lists drawn for the classifier have at
\* most this many entries
MaxRules == 2
\* events of the environment over a whole behaviour: filesystem operations
\* (create, modify, delete, touch, chmod), failing writes, shutdown signals
MaxEvents == 2
\* scan cycles over a whole behaviour
MaxCycles == 2
\* process restarts after a shutdown
MaxRestarts == 1
\* alert_threshold of the configuration (10 when not configured), brought
\* down to the number of changes a cycle over two files can find
AlertThreshold == 2

-----------------------------------------------------------------------------
(* Strings *)

startswith(s, prefix) ==
    /\ Len(prefix) <= Len(s)
    /\ SubSeq(s, 1, Len(prefix)) = prefix

endswith(s, c) == Len(s) >= 1 /\ s[Len(s)] = c

\* Python s[:-1]
butlast(s) == SubSeq(s, 1, Len(s) - 1)

\* the paths and rules of the model
DirD  == <<"/", "d">>
DirT  == <<"/", "d", "/", "t">>
FileA == <<"/", "d", "/", "a">>
FileB == <<"/", "d", "/", "b">>
FileX == <<"/", "d", "/", "t", "/", "x">>
RuleTStar == <<"/", "d", "/", "t", "*">>

\* the regular files that can exist on the agent's filesystem, in the order a
\* directory walk meets them
WalkOrder == <<FileA, FileX>>
FilePaths == {WalkOrder[i] : i \in DOMAIN WalkOrder}

-----------------------------------------------------------------------------
(* Path classifier *)

\* fim-agent-prometheus.py is_excluded_path: the loop over excluded_paths
\* from position i, returning at the first rule that matches
RECURSIVE is_excluded_from(_, _, _)
is_excluded_from(rules, i, path) ==
    IF i > Len(rules) THEN FALSE
    ELSE LET excluded == rules[i] IN
         IF endswith(excluded, "*")
         THEN IF startswith(path, butlast(excluded)) THEN TRUE
              ELSE is_excluded_from(rules, i + 1, path)
         ELSE IF path = excluded \/ startswith(path, excluded \o <<"/">>)
              THEN TRUE
              ELSE is_excluded_from(rules, i + 1, path)

\* an exclusion test that knows no prefix patterns
is_excluded_path_exact_only(rules, path) ==
    \E i \in DOMAIN rules :
        path = rules[i] \/ startswith(path, rules[i] \o <<"/">>)

\* an exclusion test that expands the marker wherever it stands in a rule
is_excluded_path_glob(rules, path) ==
    \E i \in DOMAIN rules : \E k \in DOMAIN rules[i] :
        /\ rules[i][k] = "*"
        /\ Len(path) >= Len(rules[i]) - 1
        /\ \A j \in 1..(k - 1) : path[j] = rules[i][j]
        /\ \A j \in 1..(Len(rules[i]) - k) :
               path[Len(path) - j + 1] = rules[i][Len(rules[i]) - j + 1]

is_excluded_path(rules, path) == is_excluded_from(rules, 1, path)

\* fim-agent.py should_monitor_path, second loop: the first monitored root
\* the path starts with
RECURSIVE included_from(_, _, _)
included_from(roots, i, path) ==
    IF i > Len(roots) THEN FALSE
    ELSE IF startswith(path, roots[i]) THEN TRUE
    ELSE included_from(roots, i + 1, path)

\* fim-agent.py should_monitor_path, first loop: FALSE as soon as a rule
\* matches, otherwise the rest of the function (the inclusion loop)
RECURSIVE should_monitor_from(_, _, _, _)
should_monitor_from(rules, roots, i, path) ==
    IF i > Len(rules) THEN included_from(roots, 1, path)
    ELSE LET excluded == rules[i] IN
         IF endswith(excluded, "*")
         THEN IF startswith(path, butlast(excluded)) THEN FALSE
              ELSE should_monitor_from(rules, roots, i + 1, path)
         ELSE IF path = excluded \/ startswith(path, excluded \o <<"/">>)
              THEN FALSE
              ELSE should_monitor_from(rules, roots, i + 1, path)

\* a classifier that consults the inclusions first
should_monitor_path_inclusions_first(rules, roots, path) ==
    included_from(roots, 1, path) \/ should_monitor_from(rules, roots, 1, path)

should_monitor_path(rules, roots, path) ==
    should_monitor_from(rules, roots, 1, path)

-----------------------------------------------------------------------------
(* Snapshots: Python dicts keyed by path *)

\* a persisted JSON file: missing, present but not parseable, or holding data
NoFile    == [exists |-> FALSE, parses |-> FALSE, data |-> <<>>]
Corrupt   == [exists |-> TRUE, parses |-> FALSE, data |-> <<>>]
Stored(d) == [exists |-> TRUE, parses |-> TRUE, data |-> d]

\* a path of the filesystem that holds no file
Absent == [present |-> FALSE, content |-> 0, mtime |-> 0, readable |-> FALSE]

\* calculate_file_hash returns None when the file cannot be read
None == 0

Keys(s) == {s[i].file : i \in DOMAIN s}
Has(s, p) == \E i \in DOMAIN s : s[i].file = p
Get(s, p) == s[CHOOSE i \in DOMAIN s : s[i].file = p]

\* d[p] = e: in place when the key exists, appended otherwise
Put(s, e) ==
    IF Has(s, e.file)
    THEN [i \in DOMAIN s |-> IF s[i].file = e.file THEN e ELSE s[i]]
    ELSE Append(s, e)

\* d.update(t)
RECURSIVE Update(_, _)
Update(s, t) == IF t = <<>> THEN s ELSE Update(Put(s, Head(t)), Tail(t))

\* the mapping a snapshot denotes, its insertion order forgotten
AsMap(s) == {s[i] : i \in DOMAIN s}

\* hashlib digest of a content: distinct contents, distinct digests
Digest(c) == 10 + c

-----------------------------------------------------------------------------
(* Diff engine, fim-agent.py compare_with_baseline *)

\* the first loop: over current_hashes in insertion order
RECURSIVE compare_current(_, _, _)
compare_current(base, current, i) ==
    IF i > Len(current) THEN <<>>
    ELSE LET file_path == current[i].file
             current_info == current[i]
         IN  (IF Has(base, file_path)
              THEN LET baseline_info == Get(base, file_path) IN
                   IF current_info.hash # baseline_info.hash
                   THEN << [type |-> "modified", file |-> file_path,
                            old_hash |-> baseline_info.hash,
                            new_hash |-> current_info.hash] >>
                   ELSE <<>>
              ELSE << [type |-> "new", file |-> file_path,
                       hash |-> current_info.hash] >>)
             \o compare_current(base, current, i + 1)

\* the second loop: over the baseline in insertion order
RECURSIVE compare_deleted(_, _, _)
compare_deleted(base, current, i) ==
    IF i > Len(base) THEN <<>>
    ELSE (IF ~Has(current, base[i].file)
          THEN << [type |-> "deleted", file |-> base[i].file,
                   old_hash |-> base[i].hash] >>
          ELSE <<>>)
         \o compare_deleted(base, current, i + 1)

\* fim-agent.py load_baseline: the JSON object, {} when the file is missing
\* or cannot be parsed
load_baseline_plain(bfile) ==
    IF bfile.exists /\ bfile.parses THEN bfile.data ELSE <<>>

\* a diff that compares the whole entry instead of its hash
RECURSIVE compare_current_whole_entry(_, _, _)
compare_current_whole_entry(base, current, i) ==
    IF i > Len(current) THEN <<>>
    ELSE (IF Has(base, current[i].file)
          THEN IF current[i] # Get(base, current[i].file)
               THEN << [type |-> "modified", file |-> current[i].file,
                        old_hash |-> Get(base, current[i].file).hash,
                        new_hash |-> current[i].hash] >>
               ELSE <<>>
          ELSE << [type |-> "new", file |-> current[i].file,
                   hash |-> current[i].hash] >>)
         \o compare_current_whole_entry(base, current, i + 1)

compare_with_baseline_whole_entry(bfile, current_hashes) ==
    LET base == load_baseline_plain(bfile) IN
    compare_current_whole_entry(base, current_hashes, 1)
        \o compare_deleted(base, current_hashes, 1)

\* a diff that never looks a path up in the baseline
compare_with_baseline_no_lookup(bfile, current_hashes) ==
    compare_current(<<>>, current_hashes, 1)

\* a diff whose second loop runs before its first
compare_with_baseline_deleted_first(bfile, current_hashes) ==
    LET base == load_baseline_plain(bfile) IN
    compare_deleted(base, current_hashes, 1)
        \o compare_current(base, current_hashes, 1)

compare_with_baseline(bfile, current_hashes) ==
    LET base == load_baseline_plain(bfile) IN
    compare_current(base, current_hashes, 1)
        \o compare_deleted(base, current_hashes, 1)

-----------------------------------------------------------------------------
(* The filesystem as the agent observes it *)

\* a regular file with a content
File(c, m, r) == [present |-> TRUE, content |-> c, mtime |-> m, readable |-> r]

\* os.path.isfile
os_path_isfile(path) == path \in FilePaths /\ fs[path].present

\* os.path.exists: a file, or a directory (one that holds a file)
os_path_exists(path) ==
    \/ os_path_isfile(path)
    \/ \E f \in FilePaths : fs[f].present /\ startswith(f, path \o <<"/">>)

\* calculate_file_hash: the digest, None when open or read raises
calculate_file_hash(file_path) ==
    IF fs[file_path].present /\ fs[file_path].readable
    THEN Digest(fs[file_path].content)
    ELSE None

\* os.path.getsize: the length of the content
os_path_getsize(file_path) == fs[file_path].content

os_path_getmtime(file_path) == fs[file_path].mtime

\* os.walk(root): the files below a directory, none for a root that is a file
os_walk(root) == SelectSeq(WalkOrder, LAMBDA f : startswith(f, root \o <<"/">>))

\* the paths one pass over monitored_paths visits, in order.
\* plain: scan_directory(path) walks every root;
\* prometheus: a root that is a file is visited itself, any other is walked.
RECURSIVE Worklist(_, _, _)
Worklist(v, roots, i) ==
    IF i > Len(roots) THEN <<>>
    ELSE (IF v = "prometheus" /\ roots[i] \in FilePaths
          THEN <<roots[i]>>
          ELSE os_walk(roots[i]))
         \o Worklist(v, roots, i + 1)

WL == Worklist(variant, monitored_paths, 1)

\* the position in WL of the last path of the root that position k belongs
\* to; r is a root, sofar the number of paths the roots before it gave
RECURSIVE WalkEnd(_, _, _)
WalkEnd(r, sofar, k) ==
    LET n == sofar + Len(Worklist(variant, <<monitored_paths[r]>>, 1)) IN
    IF k <= n THEN n ELSE WalkEnd(r + 1, n, k)

-----------------------------------------------------------------------------
(* History of the running cycle, kept for the claims *)

NoHist ==
    [baseline_before |-> NoFile,   \* the persisted baseline when the cycle began
     report_before |-> NoFile,     \* the persisted reports when the cycle began
     diff_base |-> <<>>,           \* the baseline the cycle diffed against
     seen |-> <<>>,                \* the fingerprints the cycle observed
     completed |-> FALSE,          \* the cycle ran to its end
     report_written |-> FALSE,     \* the cycle persisted a report
     alerted |-> FALSE,            \* the cycle logged the critical alert
     baseline_written |-> FALSE,   \* the cycle persisted a baseline
     write_failed |-> FALSE,       \* a write of the cycle failed
     ops_during |-> 0,             \* filesystem operations during the cycle
     obs_failed |-> 0,             \* of these, files that vanished under a stat
     between |-> <<>>,             \* filesystem operations since the last cycle
     prev_sync |-> FALSE,          \* the last cycle was undisturbed
     began_sync |-> FALSE,         \* prev_sync when the cycle began
     began_after |-> <<>>,         \* between when the cycle began
     began_changes |-> <<>>,       \* the records of the cycle before
     began_quiet |-> FALSE,        \* the cycle before had ops_during = 0
     boot_baseline |-> NoFile,     \* the persisted baseline at process start
     first_diff_done |-> FALSE,    \* a diff has run since process start
     idle_signal |-> FALSE]        \* a signal came while the loop was waiting

InCycle == pc \in {"scan", "check", "update"}

BeginCycle(h) ==
    [h EXCEPT !.baseline_before = baseline_file,
              !.report_before = report_file, !.diff_base = <<>>,
              !.seen = <<>>, !.completed = FALSE, !.report_written = FALSE,
              !.baseline_written = FALSE, !.write_failed = FALSE,
              !.alerted = FALSE,
              !.ops_during = 0, !.obs_failed = 0,
              !.began_sync = h.prev_sync,
              !.began_after = h.between, !.began_changes = changes,
              !.began_quiet = (cycle > 0 /\ h.ops_during = 0)]

EndCycle(h) ==
    [h EXCEPT !.completed = TRUE, !.between = <<>>,
              !.prev_sync = (h.ops_during = 0 /\ ~h.write_failed)]

\* a cycle cut short by an exception
AbortCycle(h) ==
    [h EXCEPT !.completed = FALSE, !.between = <<>>, !.prev_sync = FALSE]

-----------------------------------------------------------------------------
(* Persisting *)

\* a report whose count is one more than its records
Report_miscounted(chg) == [changes |-> chg, total_changes |-> Len(chg) + 1]

Report(chg) == [changes |-> chg, total_changes |-> Len(chg)]

\* what a failed open(..., 'w') / json.dump leaves: the old file when open
\* raised, an unparseable file when it was truncated and the dump broke off
FailedWrite(old) == {old, Corrupt}

\* fim-agent.py report_changes, the file part: the stored list with the
\* report appended; nothing is written when the stored list cannot be read
report_changes(rfile, chg) ==
    IF ~rfile.exists THEN Stored(<<Report(chg)>>)
    ELSE IF rfile.parses THEN Stored(Append(rfile.data, Report(chg)))
    ELSE rfile

\* fim-agent-prometheus.py save_report: the file holds the one report
save_report(rfile, chg) == Stored(<<Report(chg)>>)

-----------------------------------------------------------------------------
(* The plain agent, fim-agent.py *)

pureVars == <<clsVars, diffVars, metVars, eqVars, webVars>>

\* scan_directory, one file of the walk
scan_directory_file(file_hashes, file_path) ==
    IF /\ fs[file_path].present
       /\ should_monitor_path(excluded_paths, monitored_paths, file_path)
       /\ calculate_file_hash(file_path) # None
    THEN Put(file_hashes, [file |-> file_path,
                           hash |-> calculate_file_hash(file_path),
                           size |-> os_path_getsize(file_path),
                           mtime |-> os_path_getmtime(file_path)])
    ELSE file_hashes

\* perform_scan is entered: all_hashes = {}
P_BeginScan ==
    /\ pc' = "scan"
    /\ idx' = 1
    /\ all_hashes' = <<>>
    /\ changes' = <<>>
    /\ cycle' = cycle + 1
    /\ hist' = BeginCycle(hist)

\* run(): running = True, and the initial perform_scan begins
P_Start ==
    /\ variant = "plain"
    /\ pc = "start"
    /\ cycle < MaxCycles
    /\ running' = TRUE
    /\ P_BeginScan
    /\ UNCHANGED <<pureVars, baseline, restarts, cfgVars, envVars, diskVars>>

\* perform_scan, the loop over monitored_paths: the next file.  When the
\* file vanishes after it was hashed, os.path.getsize raises into
\* scan_directory's handler, which is outside the walk: the walk of this root
\* ends there and what it had collected is returned.
P_ScanFile ==
    /\ variant = "plain"
    /\ pc = "scan"
    /\ idx <= Len(WL)
    /\ \/ /\ all_hashes' = scan_directory_file(all_hashes, WL[idx])
          /\ idx' = idx + 1
          /\ UNCHANGED <<hist, envVars>>
       \/ /\ events < MaxEvents
          /\ should_monitor_path(excluded_paths, monitored_paths, WL[idx])
          /\ calculate_file_hash(WL[idx]) # None
          /\ events' = events + 1
          /\ fs' = [fs EXCEPT ![WL[idx]] = Absent]
          /\ all_hashes' = all_hashes
          /\ idx' = WalkEnd(1, 0, idx) + 1
          /\ hist' = [hist EXCEPT !.ops_during = @ + 1, !.obs_failed = @ + 1]
    /\ UNCHANGED <<pureVars, pc, running, baseline, changes, cycle, restarts,
                   cfgVars, diskVars>>

\* perform_scan with changes: send_alert under alert_on_change, which is True
\* unless configured otherwise; no threshold is consulted
send_alert(chg) == chg # <<>>

\* perform_scan after the loop: compare_with_baseline; with changes,
\* report_changes and send_alert; then save_baseline(all_hashes), whatever
\* the change count.  Either write may fail, which is logged; but
\* save_baseline calls os.makedirs before its try, so that a baseline
\* directory that is missing and cannot be made raises out of perform_scan
\* and run() into main(), which exits.
P_Evaluate ==
    /\ variant = "plain"
    /\ pc = "scan"
    /\ idx > Len(WL)
    /\ LET chg == compare_with_baseline(baseline_file, all_hashes) IN
       \E report_fails, save_fails, makedirs_raises \in BOOLEAN :
          LET n == (IF report_fails THEN 1 ELSE 0)
                   + (IF save_fails THEN 1 ELSE 0)
          IN  /\ report_fails => chg # <<>>
              /\ makedirs_raises => (save_fails /\ ~baseline_file.exists)
              /\ events + n <= MaxEvents
              /\ events' = events + n
              /\ changes' = chg
              /\ IF chg = <<>> THEN report_file' = report_file
                 ELSE IF report_fails
                 THEN report_file' \in FailedWrite(report_file)
                 ELSE report_file' = report_changes(report_file, chg)
              /\ IF makedirs_raises
                 THEN baseline_file' = baseline_file
                 ELSE IF save_fails
                 THEN baseline_file' \in FailedWrite(baseline_file)
                 ELSE baseline_file' = Stored(all_hashes)
              /\ pc' = (IF makedirs_raises THEN "stopped" ELSE "idle")
              /\ hist' =
                    LET h == [hist EXCEPT
                                !.diff_base = load_baseline_plain(baseline_file),
                                !.seen = all_hashes,
                                !.first_diff_done = TRUE,
                                !.alerted = send_alert(chg),
                                !.report_written =
                                    (chg # <<>> /\ ~report_fails
                                     /\ report_file' # report_file),
                                !.baseline_written = ~save_fails,
                                !.write_failed = (report_fails \/ save_fails)]
                    IN  IF makedirs_raises THEN AbortCycle(h) ELSE EndCycle(h)
    /\ UNCHANGED <<pureVars, running, idx, all_hashes, baseline, cycle,
                   restarts, cfgVars, fs>>

\* a loop that starts the next scan without reading the flag
P_NextCycle_unguarded ==
    /\ variant = "plain"
    /\ pc = "idle"
    /\ cycle < MaxCycles
    /\ P_BeginScan
    /\ UNCHANGED <<pureVars, running, baseline, restarts, cfgVars, envVars,
                   diskVars>>

\* run(), the loop: sleep, then the next perform_scan while running
P_NextCycle ==
    /\ variant = "plain"
    /\ pc = "idle"
    /\ running
    /\ cycle < MaxCycles
    /\ P_BeginScan
    /\ UNCHANGED <<pureVars, running, baseline, restarts, cfgVars, envVars,
                   diskVars>>

\* run(), the loop left once running is False
P_Exit ==
    /\ variant = "plain"
    /\ pc = "idle"
    /\ ~running
    /\ pc' = "stopped"
    /\ UNCHANGED <<pureVars, running, idx, all_hashes, baseline, changes,
                   cycle, restarts, hist, cfgVars, envVars, diskVars>>

\* signal_handler: running = False
P_Signal ==
    /\ variant = "plain"
    /\ pc \in {"scan", "idle"}
    /\ running
    /\ events < MaxEvents
    /\ events' = events + 1
    /\ running' = FALSE
    /\ hist' = [hist EXCEPT !.idle_signal = (pc = "idle")]
    /\ UNCHANGED <<pureVars, pc, idx, all_hashes, baseline, changes, cycle,
                   restarts, cfgVars, fs, diskVars>>

-----------------------------------------------------------------------------
(* The prometheus agent, fim-agent-prometheus.py *)

\* create_baseline, the loop: the baseline built from position i on
RECURSIVE create_baseline_from(_, _)
create_baseline_from(acc, i) ==
    IF i > Len(WL) THEN acc
    ELSE LET file_path == WL[i] IN
         create_baseline_from(
             IF /\ fs[file_path].present
                /\ ~is_excluded_path(excluded_paths, file_path)
                /\ calculate_file_hash(file_path) # None
             THEN Put(acc, [file |-> file_path,
                            hash |-> calculate_file_hash(file_path),
                            size |-> os_path_getsize(file_path),
                            mtime |-> os_path_getmtime(file_path),
                            type |-> "file"])
             ELSE acc,
             i + 1)

create_baseline == create_baseline_from(<<>>, 1)

\* create_baseline, a monitored root that is a file: it is hashed and then
\* os.path.getsize is called with no handler around it, so that a root
\* vanishing in between raises out of create_baseline before anything is
\* written
create_baseline_raises(p) ==
    /\ \E i \in DOMAIN monitored_paths : monitored_paths[i] = p
    /\ p \in FilePaths
    /\ ~is_excluded_path(excluded_paths, p)
    /\ calculate_file_hash(p) # None
    /\ events < MaxEvents
    /\ events' = events + 1
    /\ fs' = [fs EXCEPT ![p] = Absent]
    /\ baseline_file' = baseline_file

\* check_file: the records it appends to changes
check_file(file_path, base) ==
    IF Has(base, file_path)
    THEN LET current_hash == calculate_file_hash(file_path) IN
         IF current_hash # None /\ current_hash # Get(base, file_path).hash
         THEN << [type |-> "MODIFIED", path |-> file_path,
                  old_hash |-> Get(base, file_path).hash,
                  new_hash |-> current_hash] >>
         ELSE <<>>
    ELSE LET file_hash == calculate_file_hash(file_path) IN
         IF file_hash # None
         THEN << [type |-> "NEW", path |-> file_path, hash |-> file_hash] >>
         ELSE <<>>

\* scan_files, the loop over the baseline: a record for each path that no
\* longer exists
RECURSIVE check_deleted(_, _)
check_deleted(base, i) ==
    IF i > Len(base) THEN <<>>
    ELSE (IF ~os_path_exists(base[i].file)
          THEN << [type |-> "DELETED", path |-> base[i].file] >>
          ELSE <<>>)
         \o check_deleted(base, i + 1)

\* run() up to the loop: create_baseline(), then running = True; a failed
\* write of the baseline raises out of run()
R_Start ==
    /\ variant = "prometheus"
    /\ pc = "start"
    /\ \/ /\ baseline_file' = Stored(create_baseline)
          /\ running' = TRUE
          /\ pc' = "idle"
          /\ UNCHANGED <<events, fs, hist>>
       \/ /\ events < MaxEvents
          /\ events' = events + 1
          /\ baseline_file' \in FailedWrite(baseline_file)
          /\ running' = FALSE
          /\ pc' = "stopped"
          /\ UNCHANGED <<fs, hist>>
       \/ /\ \E p \in FilePaths : create_baseline_raises(p)
          /\ running' = FALSE
          /\ pc' = "stopped"
          /\ hist' = [hist EXCEPT !.prev_sync = FALSE]
    /\ UNCHANGED <<pureVars, idx, all_hashes, baseline, changes, cycle,
                   restarts, cfgVars, report_file>>

\* run(), the loop: scan_files begins with load_baseline, which returns the
\* stored baseline, {} when it cannot be parsed, and create_baseline() when
\* there is no file (a failed write there raises into run()'s handler)
R_Load ==
    /\ variant = "prometheus"
    /\ pc = "idle"
    /\ running
    /\ cycle < MaxCycles
    /\ cycle' = cycle + 1
    /\ changes' = <<>>
    /\ idx' = 1
    /\ \/ /\ baseline_file.exists
          /\ baseline' = (IF baseline_file.parses THEN baseline_file.data
                          ELSE <<>>)
          /\ pc' = "check"
          /\ hist' = [BeginCycle(hist) EXCEPT !.diff_base = baseline']
          /\ UNCHANGED <<baseline_file, events, fs>>
       \/ /\ ~baseline_file.exists
          /\ baseline' = create_baseline
          /\ baseline_file' = Stored(create_baseline)
          /\ pc' = "check"
          /\ hist' = [BeginCycle(hist) EXCEPT !.diff_base = baseline',
                                              !.baseline_written = TRUE]
          /\ UNCHANGED <<events, fs>>
       \/ /\ ~baseline_file.exists
          /\ events < MaxEvents
          /\ events' = events + 1
          /\ baseline' = <<>>
          /\ baseline_file' \in FailedWrite(baseline_file)
          /\ pc' = "idle"
          /\ hist' = AbortCycle([BeginCycle(hist) EXCEPT !.write_failed = TRUE])
          /\ UNCHANGED fs
       \/ /\ ~baseline_file.exists
          /\ \E p \in FilePaths : create_baseline_raises(p)
          /\ baseline' = <<>>
          /\ pc' = "idle"
          /\ hist' = AbortCycle([BeginCycle(hist) EXCEPT !.ops_during = 1,
                                                         !.obs_failed = 1])
    /\ UNCHANGED <<pureVars, running, all_hashes, restarts, cfgVars,
                   report_file>>

\* scan_files, the loop over monitored_paths: the next file, checked when it
\* is there and not excluded
R_CheckFile ==
    /\ variant = "prometheus"
    /\ pc = "check"
    /\ idx <= Len(WL)
    /\ LET file_path == WL[idx]
           visited == /\ fs[file_path].present
                      /\ ~is_excluded_path(excluded_paths, file_path)
       IN  /\ changes' = (IF visited
                          THEN changes \o check_file(file_path, baseline)
                          ELSE changes)
           /\ hist' = (IF visited /\ calculate_file_hash(file_path) # None
                       THEN [hist EXCEPT !.seen =
                                Put(@, [file |-> file_path,
                                        hash |-> calculate_file_hash(file_path)])]
                       ELSE hist)
    /\ idx' = idx + 1
    /\ UNCHANGED <<pureVars, pc, running, all_hashes, baseline, cycle,
                   restarts, cfgVars, envVars, diskVars>>

\* scan_files with changes: the critical "FIM Alert" line
fim_alert(chg) == chg # <<>> /\ Len(chg) >= AlertThreshold

\* scan_files after the loop: the deleted files, then with changes the report
\* (a failed write is logged) and on to update_baseline
R_Finish ==
    /\ variant = "prometheus"
    /\ pc = "check"
    /\ idx > Len(WL)
    /\ LET chg == changes \o check_deleted(baseline, 1)
           h   == [hist EXCEPT !.first_diff_done = TRUE,
                               !.alerted = fim_alert(chg)]
       IN  /\ changes' = chg
           /\ \/ /\ chg = <<>>
                 /\ pc' = "idle"
                 /\ hist' = EndCycle(h)
                 /\ UNCHANGED <<report_file, events>>
              \/ /\ chg # <<>>
                 /\ report_file' = save_report(report_file, chg)
                 /\ pc' = "update"
                 /\ hist' = [h EXCEPT !.report_written = TRUE]
                 /\ UNCHANGED events
              \/ /\ chg # <<>>
                 /\ events < MaxEvents
                 /\ events' = events + 1
                 /\ report_file' \in FailedWrite(report_file)
                 /\ pc' = "update"
                 /\ hist' = [h EXCEPT !.write_failed = TRUE]
    /\ UNCHANGED <<pureVars, running, idx, all_hashes, baseline, cycle,
                   restarts, cfgVars, fs, baseline_file>>

\* update_baseline: create_baseline() scans again and writes; a failed write
\* raises into run()'s handler
R_UpdateBaseline ==
    /\ variant = "prometheus"
    /\ pc = "update"
    /\ \/ /\ baseline_file' = Stored(create_baseline)
          /\ hist' = EndCycle([hist EXCEPT !.baseline_written = TRUE])
          /\ UNCHANGED <<events, fs>>
       \/ /\ events < MaxEvents
          /\ events' = events + 1
          /\ baseline_file' \in FailedWrite(baseline_file)
          /\ hist' = AbortCycle([hist EXCEPT !.write_failed = TRUE])
          /\ UNCHANGED fs
       \/ /\ \E p \in FilePaths : create_baseline_raises(p)
          /\ hist' = AbortCycle([hist EXCEPT !.ops_during = @ + 1,
                                             !.obs_failed = @ + 1])
    /\ pc' = "idle"
    /\ UNCHANGED <<pureVars, running, idx, all_hashes, baseline, changes,
                   cycle, restarts, cfgVars, report_file>>

\* signal_handler: running = False, then observer.stop(), observer.join()
\* and sys.exit(0).  The observer was never started, so join() raises
\* RuntimeError at the point the main thread had reached.  Either the process
\* leaves what it was doing (sys.exit, or the error reaching run()'s handler,
\* after which the loop finds running False), or the error is raised inside
\* check_file and caught by its handler: the check of that file is lost and
\* the scan goes on.
R_Signal ==
    /\ variant = "prometheus"
    /\ pc \in {"check", "update", "idle"}
    /\ running
    /\ events < MaxEvents
    /\ events' = events + 1
    /\ running' = FALSE
    /\ \/ /\ pc' = "stopped"
          /\ hist' = (IF InCycle THEN AbortCycle(hist)
                      ELSE [hist EXCEPT !.idle_signal = TRUE])
          /\ UNCHANGED idx
       \/ /\ pc = "check"
          /\ idx <= Len(WL)
          /\ fs[WL[idx]].present
          /\ ~is_excluded_path(excluded_paths, WL[idx])
          /\ idx' = idx + 1
          /\ hist' = [hist EXCEPT !.ops_during = @ + 1]
          /\ UNCHANGED pc
    /\ UNCHANGED <<pureVars, all_hashes, baseline, changes, cycle,
                   restarts, cfgVars, fs, diskVars>>

\* run(), the loop left once running is False
R_Exit ==
    /\ variant = "prometheus"
    /\ pc = "idle"
    /\ ~running
    /\ pc' = "stopped"
    /\ UNCHANGED <<pureVars, running, idx, all_hashes, baseline, changes,
                   cycle, restarts, hist, cfgVars, envVars, diskVars>>

-----------------------------------------------------------------------------
(* The environment: the process is started again; files change *)

Restart ==
    /\ pc = "stopped"
    /\ restarts < MaxRestarts
    /\ restarts' = restarts + 1
    /\ pc' = "start"
    /\ running' = FALSE
    /\ idx' = 1
    /\ all_hashes' = <<>>
    /\ baseline' = <<>>
    /\ changes' = <<>>
    /\ hist' = [hist EXCEPT !.boot_baseline = baseline_file,
                            !.first_diff_done = FALSE,
                            !.idle_signal = FALSE,
                            !.alerted = FALSE,
                            !.completed = FALSE,
                            !.prev_sync = FALSE]
    /\ UNCHANGED <<pureVars, cycle, cfgVars, envVars, diskVars>>

\* a filesystem operation, noted in the history; none is taken once the
\* process has stopped for good
FsOp(p, after, ev) ==
    /\ events < MaxEvents
    /\ ~(pc = "stopped" /\ restarts = MaxRestarts)
    /\ events' = events + 1
    /\ fs' = [fs EXCEPT ![p] = after]
    /\ hist' = (IF InCycle
                THEN [hist EXCEPT !.ops_during = @ + 1]
                ELSE [hist EXCEPT !.between = Append(@, ev)])
    /\ UNCHANGED <<pureVars, cfgVars, diskVars, procVars>>

\* a file is created with a content
FsCreate ==
    \E p \in FilePaths, c \in 1..MaxContent :
        /\ ~fs[p].present
        /\ FsOp(p, File(c, events + 1, TRUE),
                [op |-> "create", file |-> p, old |-> 0, new |-> c])

\* the content of a file is replaced
FsModify ==
    \E p \in FilePaths, c \in 1..MaxContent :
        /\ fs[p].present
        /\ c # fs[p].content
        /\ FsOp(p, [fs[p] EXCEPT !.content = c, !.mtime = events + 1],
                [op |-> "modify", file |-> p, old |-> fs[p].content, new |-> c])

FsDelete ==
    \E p \in FilePaths :
        /\ fs[p].present
        /\ FsOp(p, Absent,
                [op |-> "delete", file |-> p, old |-> fs[p].content, new |-> 0])

\* the modification time alone changes
FsTouch ==
    \E p \in FilePaths :
        /\ fs[p].present
        /\ FsOp(p, [fs[p] EXCEPT !.mtime = events + 1],
                [op |-> "touch", file |-> p, old |-> fs[p].content,
                 new |-> fs[p].content])

\* the file becomes unreadable, or readable again
FsChmod ==
    \E p \in FilePaths :
        /\ fs[p].present
        /\ FsOp(p, [fs[p] EXCEPT !.readable = ~@],
                [op |-> "chmod", file |-> p, old |-> fs[p].content,
                 new |-> fs[p].content])

-----------------------------------------------------------------------------
(* The classifier and the diff engine at rest: the values their variables  *)
(* keep while the agent runs                                               *)

ClassifierAtRest ==
    /\ c_path = <<>>
    /\ c_excluded = <<>>
    /\ c_monitored = <<>>
    /\ c_pc = "off"
    /\ c_result = FALSE
    /\ c_is_excluded = FALSE

DiffAtRest ==
    /\ d_baseline = NoFile
    /\ d_current = <<>>
    /\ d_pc = "off"
    /\ d_changes = <<>>
    /\ d_text = <<>>
    /\ d_reloaded = <<>>
    /\ d_rediff = <<>>

\* the label of the counter's per-type totals, path='total'
TotalLabel == <<"total">>

EventTypes == {"new", "modified", "deleted"}
MetricPaths == <<TotalLabel, FileA, FileB>>

\* fim_events_total with no event counted
NoEvents ==
    [l \in EventTypes \X {MetricPaths[k] : k \in DOMAIN MetricPaths} |-> 0]

MetricsAtRest ==
    /\ m_changes = <<>>
    /\ m_pc = "off"
    /\ m_i = 1
    /\ m_cycles = 0
    /\ fim_events_total = NoEvents
    /\ m_before = NoEvents
    /\ m_completed = NoEvents

EquivAtRest ==
    /\ e_pc = "off"
    /\ e_plain = {}
    /\ e_prom = {}

WebhookAtRest ==
    /\ w_alerts = <<>>
    /\ w_pc = "off"
    /\ w_i = 1
    /\ w_invoked = <<>>
    /\ w_response = 0

-----------------------------------------------------------------------------
(* Spec: the agent in either variant, under a drawn configuration *)

\* monitored_paths and excluded_paths:
\*   one directory, a prefix pattern below it;
\*   a directory and a file inside it, nothing excluded;
\*   two files, one of them below an excluded directory
Configs ==
    { [monitored |-> <<DirD>>, excluded |-> <<RuleTStar>>],
      [monitored |-> <<DirD, FileA>>, excluded |-> <<>>],
      [monitored |-> <<FileA, FileX>>, excluded |-> <<DirT>>] }

InitialFs ==
    { [p \in FilePaths |-> Absent],
      [p \in FilePaths |-> File(1, 0, TRUE)] }

Init ==
    /\ variant \in {"plain", "prometheus"}
    /\ \E c \in Configs :
          /\ monitored_paths = c.monitored
          /\ excluded_paths = c.excluded
    /\ fs \in InitialFs
    /\ events = 0
    /\ baseline_file = NoFile
    /\ report_file = NoFile
    /\ pc = "start"
    /\ running = FALSE
    /\ idx = 1
    /\ all_hashes = <<>>
    /\ baseline = <<>>
    /\ changes = <<>>
    /\ cycle = 0
    /\ restarts = 0
    /\ hist = NoHist
    /\ ClassifierAtRest
    /\ DiffAtRest
    /\ MetricsAtRest
    /\ EquivAtRest
    /\ WebhookAtRest

Next ==
    \/ P_Start \/ P_ScanFile \/ P_Evaluate
    \/ P_NextCycle \/ P_Exit \/ P_Signal
    \/ R_Start \/ R_Load \/ R_CheckFile \/ R_Finish \/ R_UpdateBaseline
    \/ R_Signal \/ R_Exit
    \/ Restart
    \/ FsCreate \/ FsModify \/ FsDelete \/ FsTouch \/ FsChmod

Spec == Init /\ [][Next]_vars

\* the loop of run() goes on: once running is False and the loop is at its
\* test, it is left
SpecLive == Spec /\ WF_vars(P_Exit) /\ WF_vars(R_Exit)

-----------------------------------------------------------------------------
(* The agent at rest: the values the agent's variables keep while a pure   *)
(* function is exercised on drawn inputs                                   *)

AgentAtRest ==
    /\ variant = "plain"
    /\ monitored_paths = <<>>
    /\ excluded_paths = <<>>
    /\ fs = [p \in FilePaths |-> Absent]
    /\ events = 0
    /\ baseline_file = NoFile
    /\ report_file = NoFile
    /\ pc = "off"
    /\ running = FALSE
    /\ idx = 1
    /\ all_hashes = <<>>
    /\ baseline = <<>>
    /\ changes = <<>>
    /\ cycle = 0
    /\ restarts = 0
    /\ hist = NoHist

SeqsUpTo(S, n) == UNION {[1..k -> S] : k \in 0..n}

-----------------------------------------------------------------------------
(* SpecClassify: the path classifier on every drawn path and configuration *)

\* "/d/tx", "/d/ab", "/e", "", "/d/*x" besides the files and directories
ClassifyPaths ==
    FilePaths \cup {DirD, DirT, <<"/", "d", "/", "t", "x">>,
                    <<"/", "d", "/", "a", "b">>, <<"/", "e">>, <<>>,
                    <<"/", "d", "/", "*", "x">>}

\* "/d/t*", "/d/t", "/d/a", "/d/*x" (the marker not last), "/d/a*"
RuleUniverse ==
    {RuleTStar, DirT, FileA, <<"/", "d", "/", "*", "x">>,
     <<"/", "d", "/", "a", "*">>}

RootUniverse == {DirD, FileA, DirT}

ClassifyInit ==
    /\ c_path \in ClassifyPaths
    /\ c_excluded \in SeqsUpTo(RuleUniverse, MaxRules)
    /\ c_monitored \in SeqsUpTo(RootUniverse, MaxRules)
    /\ c_pc = "input"
    /\ c_result = FALSE
    /\ c_is_excluded = FALSE
    /\ DiffAtRest
    /\ MetricsAtRest
    /\ AgentAtRest
    /\ EquivAtRest
    /\ WebhookAtRest

Classify ==
    /\ c_pc = "input"
    /\ c_result' = should_monitor_path(c_excluded, c_monitored, c_path)
    /\ c_is_excluded' = is_excluded_path(c_excluded, c_path)
    /\ c_pc' = "done"
    /\ UNCHANGED <<c_path, c_excluded, c_monitored, diffVars, metVars,
                   agentVars,
                   eqVars, webVars>>

ClassifyNext == Classify

SpecClassify == ClassifyInit /\ [][ClassifyNext]_vars

-----------------------------------------------------------------------------
(* The baseline file as JSON text: an object with one member per path, in   *)
(* the order of the mapping; a member's value is an object of literals      *)

\* a string literal, and a number literal written with or without a fraction
\* part (a float such as the mtime is written with one, an int without)
JString(x) == [lit |-> "string", text |-> x, frac |-> FALSE]
JNumber(n, isfloat) == [lit |-> "number", text |-> n, frac |-> isfloat]

\* json.dump(baseline_data, f, indent=2)
json_dump(s) ==
    [i \in DOMAIN s |->
        [key   |-> JString(s[i].file),
         value |-> [hash  |-> JString(s[i].hash),
                    size  |-> JNumber(s[i].size, FALSE),
                    mtime |-> JNumber(s[i].mtime, TRUE)]]]

\* the value a literal is read as
json_value(l) == l.text

\* json.load(f): the members are put into a dict one after the other, a
\* repeated key replacing the earlier value in its place
RECURSIVE json_load_from(_, _, _)
json_load_from(text, k, acc) ==
    IF k > Len(text) THEN acc
    ELSE json_load_from(text, k + 1,
             Put(acc, [file  |-> json_value(text[k].key),
                       hash  |-> json_value(text[k].value.hash),
                       size  |-> json_value(text[k].value.size),
                       mtime |-> json_value(text[k].value.mtime)]))

\* a reader that keeps only the last member of the object
json_load_last_member(text) ==
    IF text = <<>> THEN <<>>
    ELSE json_load_from(text, Len(text), <<>>)

json_load(text) == json_load_from(text, 1, <<>>)

-----------------------------------------------------------------------------
(* SpecDiff: the diff engine on every pair of drawn snapshots *)

DiffPaths == {FileA, FileB}
StatValues == {1, 2}

DiffEntries ==
    [file : DiffPaths, hash : {Digest(c) : c \in 1..MaxContent},
     size : StatValues, mtime : StatValues]

DiffSnapshots ==
    {s \in SeqsUpTo(DiffEntries, Cardinality(DiffPaths)) :
        \A i, j \in DOMAIN s : i # j => s[i].file # s[j].file}

DiffInit ==
    /\ d_baseline \in {Stored(s) : s \in DiffSnapshots} \cup {NoFile, Corrupt}
    /\ d_current \in DiffSnapshots
    /\ d_pc = "input"
    /\ d_changes = <<>>
    /\ d_text = <<>>
    /\ d_reloaded = <<>>
    /\ d_rediff = <<>>
    /\ ClassifierAtRest
    /\ MetricsAtRest
    /\ AgentAtRest
    /\ EquivAtRest
    /\ WebhookAtRest

DiffStep ==
    /\ d_pc = "input"
    /\ d_changes' = compare_with_baseline(d_baseline, d_current)
    /\ d_pc' = "done"
    /\ UNCHANGED <<d_baseline, d_current, d_text, d_reloaded, d_rediff,
                   clsVars, metVars, agentVars,
                   eqVars, webVars>>

\* save_baseline(current) and then compare_with_baseline(current): the
\* snapshot is written as JSON text, the text is read back by load_baseline,
\* and the snapshot is diffed against what was read
SaveAndReload ==
    /\ d_pc = "input"
    /\ d_text' = json_dump(d_current)
    /\ d_reloaded' = json_load(d_text')
    /\ d_rediff' = compare_with_baseline(Stored(d_reloaded'), d_current)
    /\ d_pc' = "reloaded"
    /\ UNCHANGED <<d_baseline, d_current, d_changes, clsVars, metVars,
                   agentVars,
                   eqVars, webVars>>

DiffNext == DiffStep \/ SaveAndReload

SpecDiff == DiffInit /\ [][DiffNext]_vars

-----------------------------------------------------------------------------
(* SpecMetrics: the counter fim_events_total through the cycles of          *)
(* scan_files, for every list of changes a scan can find over two paths     *)

\* change records found by one scan
MaxMetricChanges == 2
\* scan cycles
MaxMetricCycles == 2

MetricRecords == [type : {"NEW", "MODIFIED", "DELETED"}, path : {FileA, FileB}]

\* scan_files appends the NEW and MODIFIED records in its first loop and the
\* DELETED ones in its second
MetricChangeLists ==
    {c \in SeqsUpTo(MetricRecords, MaxMetricChanges) :
        \A i, j \in DOMAIN c :
            (c[i].type = "DELETED" /\ c[j].type # "DELETED") => j < i}

\* str.lower() of a record's type
lower(t) ==
    CASE t = "NEW" -> "new"
      [] t = "MODIFIED" -> "modified"
      [] t = "DELETED" -> "deleted"
      [] OTHER -> t

\* len(new_files), len(modified_files), len(deleted_files)
CountOf(chg, t) == Cardinality({i \in DOMAIN chg : lower(chg[i].type) = t})

\* Counter.labels(event_type, path).inc(n)
inc(counter, event_type, path, n) ==
    [counter EXCEPT ![<<event_type, path>>] = @ + n]

MetricsInit ==
    /\ m_changes = <<>>
    /\ m_pc = "idle"
    /\ m_i = 1
    /\ m_cycles = 0
    /\ fim_events_total = NoEvents
    /\ m_before = NoEvents
    /\ m_completed = NoEvents
    /\ ClassifierAtRest
    /\ DiffAtRest
    /\ AgentAtRest
    /\ EquivAtRest
    /\ WebhookAtRest

\* scan_files up to the metrics: the loops have built changes
M_Scan ==
    /\ m_pc = "idle"
    /\ m_cycles < MaxMetricCycles
    /\ m_cycles' = m_cycles + 1
    /\ m_changes' \in MetricChangeLists
    /\ m_before' = fim_events_total
    /\ m_i' = 1
    /\ m_pc' = "built"
    /\ UNCHANGED <<fim_events_total, m_completed, clsVars, diffVars, agentVars,
                   eqVars, webVars>>

\* scan_files: the three increments of the path='total' series; with no
\* change the cycle ends here
M_CountTotals ==
    /\ m_pc = "built"
    /\ fim_events_total' =
          inc(inc(inc(fim_events_total,
                      "new", TotalLabel, CountOf(m_changes, "new")),
                  "modified", TotalLabel, CountOf(m_changes, "modified")),
              "deleted", TotalLabel, CountOf(m_changes, "deleted"))
    /\ IF m_changes = <<>>
       THEN m_pc' = "idle" /\ m_completed' = fim_events_total'
       ELSE m_pc' = "log" /\ m_completed' = m_completed
    /\ UNCHANGED <<m_changes, m_i, m_cycles, m_before, clsVars, diffVars,
                   agentVars,
                   eqVars, webVars>>

\* scan_files, 'for change in changes': the increment of the change's own
\* series
M_CountPath ==
    /\ m_pc = "log"
    /\ m_i <= Len(m_changes)
    /\ fim_events_total' =
          inc(fim_events_total, lower(m_changes[m_i].type),
              m_changes[m_i].path, 1)
    /\ m_i' = m_i + 1
    /\ UNCHANGED <<m_changes, m_pc, m_cycles, m_before, m_completed, clsVars,
                   diffVars, agentVars,
                   eqVars, webVars>>

\* scan_files: save_report and update_baseline end the cycle
M_Persist ==
    /\ m_pc = "log"
    /\ m_i > Len(m_changes)
    /\ m_pc' = "idle"
    /\ m_completed' = fim_events_total
    /\ UNCHANGED <<m_changes, m_i, m_cycles, fim_events_total, m_before,
                   clsVars, diffVars, agentVars,
                   eqVars, webVars>>

MetricsNext == M_Scan \/ M_CountTotals \/ M_CountPath \/ M_Persist

SpecMetrics == MetricsInit /\ [][MetricsNext]_vars

-----------------------------------------------------------------------------
(* SpecEquiv: one scan cycle of each variant over the same persisted        *)
(* baseline, configuration and filesystem                                   *)

\* perform_scan, the loop over monitored_paths: all_hashes after the walk
RECURSIVE scan_all_from(_, _)
scan_all_from(acc, k) ==
    LET wl == Worklist("plain", monitored_paths, 1) IN
    IF k > Len(wl) THEN acc
    ELSE scan_all_from(scan_directory_file(acc, wl[k]), k + 1)

\* perform_scan: the records of compare_with_baseline(all_hashes)
perform_scan_records ==
    compare_with_baseline(baseline_file, scan_all_from(<<>>, 1))

\* scan_files, the loop over monitored_paths: the records of check_file
RECURSIVE scan_files_checked(_, _)
scan_files_checked(base, k) ==
    LET wl == Worklist("prometheus", monitored_paths, 1) IN
    IF k > Len(wl) THEN <<>>
    ELSE (IF fs[wl[k]].present /\ ~is_excluded_path(excluded_paths, wl[k])
          THEN check_file(wl[k], base)
          ELSE <<>>)
         \o scan_files_checked(base, k + 1)

\* scan_files with a baseline file that exists: load_baseline, the loop
\* over monitored_paths, the loop over the baseline
scan_files_records ==
    LET base == IF baseline_file.parses THEN baseline_file.data ELSE <<>> IN
    scan_files_checked(base, 1) \o check_deleted(base, 1)

\* the (kind, path) pairs of a list of records, the kind in lower case
KindPathsPlain(chg) == {<<lower(chg[i].type), chg[i].file>> : i \in DOMAIN chg}
KindPathsProm(chg) == {<<lower(chg[i].type), chg[i].path>> : i \in DOMAIN chg}

\* a file: absent, readable with one of the contents, or unreadable
EquivFiles ==
    {Absent} \cup {File(c, 0, TRUE) : c \in 1..MaxContent}
             \cup {File(1, 0, FALSE)}

\* persisted baselines: every mapping over the files, with any digests
EquivBaselines ==
    {s \in SeqsUpTo([file : FilePaths,
                     hash : {Digest(c) : c \in 1..MaxContent},
                     size : {1}, mtime : {0}], Cardinality(FilePaths)) :
        \A i, j \in DOMAIN s : i # j => s[i].file # s[j].file}

EquivInit ==
    /\ variant = "plain"
    /\ \E c \in Configs :
          /\ monitored_paths = c.monitored
          /\ excluded_paths = c.excluded
    /\ fs \in [FilePaths -> EquivFiles]
    /\ baseline_file \in {Stored(s) : s \in EquivBaselines} \cup {Corrupt}
    /\ events = 0
    /\ report_file = NoFile
    /\ pc = "off"
    /\ running = FALSE
    /\ idx = 1
    /\ all_hashes = <<>>
    /\ baseline = <<>>
    /\ changes = <<>>
    /\ cycle = 0
    /\ restarts = 0
    /\ hist = NoHist
    /\ e_pc = "input"
    /\ e_plain = {}
    /\ e_prom = {}
    /\ ClassifierAtRest
    /\ DiffAtRest
    /\ MetricsAtRest
    /\ WebhookAtRest

\* one cycle of fim-agent.py
E_PerformScan ==
    /\ e_pc = "input"
    /\ e_plain' = KindPathsPlain(perform_scan_records)
    /\ e_pc' = "plain"
    /\ UNCHANGED <<e_prom, clsVars, diffVars, metVars, webVars, agentVars>>

\* one cycle of fim-agent-prometheus.py, over the same inputs
E_ScanFiles ==
    /\ e_pc = "plain"
    /\ e_prom' = KindPathsProm(scan_files_records)
    /\ e_pc' = "done"
    /\ UNCHANGED <<e_plain, clsVars, diffVars, metVars, webVars, agentVars>>

EquivNext == E_PerformScan \/ E_ScanFiles

SpecEquiv == EquivInit /\ [][EquivNext]_vars

-----------------------------------------------------------------------------
(* SpecWebhook: the alert receiver, automated-remediation/webhook-receiver  *)
(* .py, answering one POST whose body parsed to a batch of alerts           *)

\* alerts in one POST
MaxBatch == 2

\* process_alert's routing, alert name to handler, and the playbook each
\* handler runs
Playbooks ==
    [FIMFileChange         |-> "remediate-fim-changes.yml",
     FIMHighActivity       |-> "remediate-high-activity.yml",
     FIMAgentDown          |-> "restart-fim-agent.yml",
     CMDBCollectionFailure |-> "restart-cmdb-collector.yml",
     CMDBCollectorDown     |-> "restart-cmdb-collector.yml"]

RoutedNames == DOMAIN Playbooks

\* the handlers that read alert['annotations']
ReadsAnnotations == {"FIMFileChange", "FIMHighActivity"}

port_mapping ==
    [i \in {"host.docker.internal:8080", "host.docker.internal:8081",
            "host.docker.internal:8082", "host.docker.internal:8083",
            "host.docker.internal:8084", "host.docker.internal:8085",
            "host.docker.internal:9101", "host.docker.internal:9102",
            "host.docker.internal:9103"} |->
        IF i \in {"host.docker.internal:8080", "host.docker.internal:8081",
                  "host.docker.internal:9101"} THEN "manage-node-1"
        ELSE IF i \in {"host.docker.internal:8082",
                       "host.docker.internal:8083",
                       "host.docker.internal:9102"} THEN "manage-node-2"
        ELSE "manage-node-3"]

\* port_mapping.get(instance, None); "None" stands for Python's None
get_node_name_from_instance(instance) ==
    IF instance \in DOMAIN port_mapping THEN port_mapping[instance] ELSE "None"

\* an element of the 'alerts' list as process_alert reads it: labels_ok,
\* status_ok and annotations_ok say whether the value under 'labels',
\* 'status' and 'annotations' is a JSON object (.get can be called on it)
WellFormedAlerts ==
    [labels_ok : {TRUE}, status_ok : {TRUE}, annotations_ok : {TRUE},
     state : {"firing", "resolved"},
     alertname : RoutedNames \cup {"Watchdog"},
     instance : {"host.docker.internal:9102", "localhost:9090"}]

\* 'status' a string, as Alertmanager sends it; 'labels' null;
\* 'annotations' null
OddAlerts ==
    { [labels_ok |-> TRUE, status_ok |-> FALSE, annotations_ok |-> TRUE,
       state |-> "firing", alertname |-> "FIMFileChange",
       instance |-> "host.docker.internal:9102"],
      [labels_ok |-> FALSE, status_ok |-> TRUE, annotations_ok |-> TRUE,
       state |-> "firing", alertname |-> "unknown", instance |-> "unknown"],
      [labels_ok |-> TRUE, status_ok |-> TRUE, annotations_ok |-> FALSE,
       state |-> "firing", alertname |-> "FIMFileChange",
       instance |-> "host.docker.internal:9102"],
      [labels_ok |-> TRUE, status_ok |-> TRUE, annotations_ok |-> FALSE,
       state |-> "firing", alertname |-> "FIMAgentDown",
       instance |-> "host.docker.internal:9102"] }

Alerts == WellFormedAlerts \cup OddAlerts

\* process_alert raises: the first statement, alert['labels'].get, raises
\* AttributeError, and the except clause evaluates the same expression for
\* its log line
process_alert_raises(alert) == ~alert.labels_ok

\* process_alert returns: the playbook runs it started, none when reading
\* the state raised (caught), the alert is not firing, the name has no
\* handler, the handler raised on the annotations (caught), or the instance
\* maps to no node
process_alert(alert, k) ==
    IF ~alert.status_ok THEN <<>>
    ELSE IF alert.state # "firing" THEN <<>>
    ELSE IF alert.alertname \notin RoutedNames THEN <<>>
    ELSE IF alert.alertname \in ReadsAnnotations /\ ~alert.annotations_ok
    THEN <<>>
    ELSE IF get_node_name_from_instance(alert.instance) = "None" THEN <<>>
    ELSE << [playbook |-> Playbooks[alert.alertname],
             target_node |-> get_node_name_from_instance(alert.instance),
             alert |-> k] >>

WebhookInit ==
    /\ w_alerts \in SeqsUpTo(Alerts, MaxBatch)
    /\ w_pc = "loop"
    /\ w_i = 1
    /\ w_invoked = <<>>
    /\ w_response = 0
    /\ ClassifierAtRest
    /\ DiffAtRest
    /\ MetricsAtRest
    /\ EquivAtRest
    /\ AgentAtRest

\* do_POST, the loop: process_alert on the next alert; an exception that
\* leaves process_alert ends the loop in do_POST's handler, which answers 500
W_ProcessAlert ==
    /\ w_pc = "loop"
    /\ w_i <= Len(w_alerts)
    /\ IF process_alert_raises(w_alerts[w_i])
       THEN /\ w_response' = 500
            /\ w_pc' = "answered"
            /\ UNCHANGED <<w_i, w_invoked>>
       ELSE /\ w_invoked' = w_invoked \o process_alert(w_alerts[w_i], w_i)
            /\ w_i' = w_i + 1
            /\ UNCHANGED <<w_pc, w_response>>
    /\ UNCHANGED <<w_alerts, clsVars, diffVars, metVars, eqVars, agentVars>>

\* do_POST after the loop: 200 and {'status': 'success'}
W_Respond ==
    /\ w_pc = "loop"
    /\ w_i > Len(w_alerts)
    /\ w_response' = 200
    /\ w_pc' = "answered"
    /\ UNCHANGED <<w_alerts, w_i, w_invoked, clsVars, diffVars, metVars,
                   eqVars, agentVars>>

WebhookNext == W_ProcessAlert \/ W_Respond

SpecWebhook == WebhookInit /\ [][WebhookNext]_vars

-----------------------------------------------------------------------------
(* Claims about the pure functions *)

\* what the specification means by a rule matching a path
IsPrefixOf(a, b) == Len(a) <= Len(b) /\ \A i \in 1..Len(a) : a[i] = b[i]

RuleMatches(rule, path) ==
    IF Len(rule) >= 1 /\ rule[Len(rule)] = "*"
    THEN IsPrefixOf([i \in 1..(Len(rule) - 1) |-> rule[i]], path)
    ELSE path = rule \/ IsPrefixOf(rule \o <<"/">>, path)

AnyRuleMatches(rules, path) == \E i \in DOMAIN rules : RuleMatches(rules[i], path)

\* C10: the classifier's exclusion test is true exactly when some rule
\* matches the path (a rule ending in the marker: the path starts with the
\* rule less the marker; any other rule: the path is the rule or starts with
\* the rule and a separator), and a path some rule matches is out-of-scope
\* whatever the monitored roots are.
C10_ExclusionsFirst ==
    c_pc = "done" =>
        /\ c_is_excluded = AnyRuleMatches(c_excluded, c_path)
        /\ AnyRuleMatches(c_excluded, c_path) => ~c_result

\* a path under a monitored root and matched by the second of two rules,
\* a prefix pattern, is classified out-of-scope
C10_Witness ==
    /\ c_pc = "done"
    /\ c_path = FileX
    /\ c_excluded = <<FileA, RuleTStar>>
    /\ c_monitored = <<DirD>>
    /\ c_is_excluded
    /\ ~c_result

\* the baseline a diff starts from and the fingerprints a snapshot holds
LoadedBaseline == IF d_baseline \in {NoFile, Corrupt} THEN <<>> ELSE d_baseline.data
HashesOf(s, p) == {s[i].hash : i \in {j \in DOMAIN s : s[j].file = p}}
RecordsOf(chg, p) == {i \in DOMAIN chg : chg[i].file = p}

\* C1: the diff holds exactly one record for each path that is only in the
\* current snapshot (new), in both with different fingerprints (modified) or
\* only in the baseline (deleted), and none for any other path: a path in
\* both with equal fingerprints has no record, whatever its size and
\* modification time.
C1_DiffExact ==
    d_pc = "done" =>
        /\ \A i \in DOMAIN d_changes :
               d_changes[i].file \in Keys(LoadedBaseline) \cup Keys(d_current)
        /\ \A p \in Keys(LoadedBaseline) \cup Keys(d_current) :
               LET recs == RecordsOf(d_changes, p)
                   inB  == Has(LoadedBaseline, p)
                   inC  == Has(d_current, p)
               IN  IF inC /\ ~inB
                   THEN Cardinality(recs) = 1
                        /\ \A i \in recs : d_changes[i].type = "new"
                   ELSE IF ~inC
                   THEN Cardinality(recs) = 1
                        /\ \A i \in recs : d_changes[i].type = "deleted"
                   ELSE IF HashesOf(LoadedBaseline, p) # HashesOf(d_current, p)
                   THEN Cardinality(recs) = 1
                        /\ \A i \in recs : d_changes[i].type = "modified"
                   ELSE recs = {}

\* one path unchanged but for its size and modification time, the other new:
\* the diff is the one new record
C1_Witness ==
    /\ d_pc = "done"
    /\ Has(LoadedBaseline, FileA) /\ Has(d_current, FileA)
    /\ Get(LoadedBaseline, FileA).hash = Get(d_current, FileA).hash
    /\ Get(LoadedBaseline, FileA).size # Get(d_current, FileA).size
    /\ Get(LoadedBaseline, FileA).mtime # Get(d_current, FileA).mtime
    /\ ~Has(LoadedBaseline, FileB) /\ Has(d_current, FileB)
    /\ Len(d_changes) = 1
    /\ d_changes[1].type = "new"

\* C11: a path classified in-scope is covered by a monitored root: a root
\* that is a file path covers that exact path only; any other root covers the
\* paths that start with it.
C11_FileRootExact ==
    (c_pc = "done" /\ c_result) =>
        \E i \in DOMAIN c_monitored :
            IF c_monitored[i] \in FilePaths
            THEN c_path = c_monitored[i]
            ELSE IsPrefixOf(c_monitored[i], c_path)

\* C23: the counter a metrics query reads is at every moment the counter as
\* the last completed cycle left it.
C23_MetricsOnlyCompletedCycles ==
    fim_events_total = m_completed

\* the sum the audit tool makes of a type's series, over all path labels
RECURSIVE AuditSum(_, _, _)
AuditSum(counter, t, k) ==
    IF k > Len(MetricPaths) THEN 0
    ELSE counter[<<t, MetricPaths[k]>>] + AuditSum(counter, t, k + 1)

\* C27: over a completed cycle the counter of each event type, summed over
\* its path labels, grows by the number of change records of that type.
C27_CounterGrowsByRecords ==
    (m_pc = "idle" /\ m_cycles > 0) =>
        \A t \in EventTypes :
            AuditSum(fim_events_total, t, 1) - AuditSum(m_before, t, 1)
                = CountOf(m_changes, t)

C25_SelfDiffEmpty ==
    (d_pc = "done" /\ d_baseline = Stored(d_current)) => d_changes = <<>>

\* a snapshot of two paths was diffed against itself
C25_Witness ==
    /\ d_pc = "done"
    /\ d_baseline = Stored(d_current)
    /\ Len(d_current) = 2
    /\ d_changes = <<>>

\* a rule that holds the marker, but not as its last character
MarkerInside(rule) ==
    /\ \E k \in DOMAIN rule : rule[k] = "*"
    /\ rule[Len(rule)] # "*"

\* C29: an exclusion rule holding the wildcard marker anywhere but as its
\* last character is an exact rule: it excludes the path equal to the rule
\* text and the paths under that text plus a separator, and no other path,
\* so a file the expanded marker would cover stays in scope under its root.
C29_InnerMarkerIsExact ==
    (/\ c_pc = "done"
     /\ c_excluded # <<>>
     /\ \A i \in DOMAIN c_excluded : MarkerInside(c_excluded[i]))
    => /\ c_is_excluded =
              \E i \in DOMAIN c_excluded :
                  \/ c_path = c_excluded[i]
                  \/ IsPrefixOf(c_excluded[i] \o <<"/">>, c_path)
       /\ (c_path # <<>> /\ ~\E k \in DOMAIN c_path : c_path[k] = "*")
              => /\ ~c_is_excluded
                 /\ c_result = \E i \in DOMAIN c_monitored :
                                   IsPrefixOf(c_monitored[i], c_path)

\* "/d/tx" under the root "/d" with the rule "/d/*x": in scope
C29_Witness ==
    /\ c_pc = "done"
    /\ c_excluded = << <<"/", "d", "/", "*", "x">> >>
    /\ c_path = <<"/", "d", "/", "t", "x">>
    /\ c_monitored = <<DirD>>
    /\ ~c_is_excluded
    /\ c_result

\* C28: for the same persisted baseline, configuration and filesystem, one
\* cycle of the plain variant and one of the prometheus variant produce the
\* same set of (kind, path) records, the kind compared without letter case:
\* also when a baseline file is there but unreadable or excluded, when
\* monitored roots overlap, and when a monitored root is a single file.
C28_VariantsAgree ==
    e_pc = "done" => e_plain = e_prom

\* the alert a playbook run was started for
AlertOf(run) == w_alerts[run.alert]

\* C30: the receiver runs a playbook for an alert only when the alert's
\* state is firing, its name is one of the five routed names and its
\* instance maps to a known node; a failure while one alert is processed
\* does not keep the remaining alerts of the batch from being processed, and
\* the POST is answered with success.
C30_RemediationRouting ==
    /\ \A r \in DOMAIN w_invoked :
           /\ AlertOf(w_invoked[r]).state = "firing"
           /\ AlertOf(w_invoked[r]).alertname \in RoutedNames
           /\ AlertOf(w_invoked[r]).instance \in DOMAIN port_mapping
    /\ w_pc = "answered" =>
           /\ w_i = Len(w_alerts) + 1
           /\ w_response = 200

-----------------------------------------------------------------------------
(* Claims about the agent *)

PathOf(r) == IF "file" \in DOMAIN r THEN r.file ELSE r.path

KindOf(r) ==
    IF r.type \in {"new", "NEW"} THEN "new"
    ELSE IF r.type \in {"modified", "MODIFIED"} THEN "modified"
    ELSE "deleted"

\* a snapshot as the set of its (path, fingerprint) pairs
HashView(s) == {<<s[i].file, s[i].hash>> : i \in DOMAIN s}

\* what the specification means by in-scope: no rule matches the path, and a
\* monitored root is the path or a directory above it
InScope(p) ==
    /\ ~AnyRuleMatches(excluded_paths, p)
    /\ \E i \in DOMAIN monitored_paths :
          monitored_paths[i] = p \/ IsPrefixOf(monitored_paths[i] \o <<"/">>, p)

\* a cycle has run to its end and its results stand
CycleDone == pc = "idle" /\ hist.completed

\* C2: every change record carries the fingerprints of its kind: a modified
\* record the baseline's and a current one, a new record a current one, a
\* deleted record the baseline's fingerprint of the path.
C2_RecordsCarryFingerprints ==
    \A i \in DOMAIN changes :
        LET r == changes[i] IN
        IF KindOf(r) = "new"
        THEN "hash" \in DOMAIN r /\ r.hash # None
        ELSE IF KindOf(r) = "modified"
        THEN /\ "old_hash" \in DOMAIN r /\ "new_hash" \in DOMAIN r
             /\ r.old_hash \in HashesOf(hist.diff_base, PathOf(r))
             /\ r.new_hash # None
        ELSE /\ "old_hash" \in DOMAIN r
             /\ r.old_hash \in HashesOf(hist.diff_base, PathOf(r))

\* C3: no path appears in more than one change record of a cycle.
C3_NoPathTwice ==
    \A i, j \in DOMAIN changes :
        i # j => PathOf(changes[i]) # PathOf(changes[j])

\* the paths and fingerprints a cycle diffed: those it observed, less the
\* paths it then reported deleted
DiffedView ==
    {v \in HashView(hist.seen) :
        ~\E i \in DOMAIN changes :
            KindOf(changes[i]) = "deleted" /\ PathOf(changes[i]) = v[1]}

\* C4: after a cycle that found changes and wrote the baseline, the persisted
\* baseline holds exactly the paths and fingerprints the cycle diffed.
C4_BaselineIsDiffedSnapshot ==
    (CycleDone /\ changes # <<>> /\ hist.baseline_written) =>
        /\ baseline_file.exists /\ baseline_file.parses
        /\ HashView(baseline_file.data) = DiffedView

\* C5: a cycle that follows an undisturbed cycle and is itself undisturbed
\* reports, when the one filesystem operation in between replaced the content
\* of a readable in-scope file, exactly one modified record for that file,
\* with the old and the new fingerprint, and replaces the baseline; when
\* nothing happened in between it reports nothing.
C5_OneModifiedThenQuiet ==
    (CycleDone /\ hist.began_sync /\ hist.ops_during = 0 /\ ~hist.write_failed) =>
        /\ hist.began_after = <<>> => changes = <<>>
        /\ \A ev \in {hist.began_after[k] : k \in DOMAIN hist.began_after} :
              ( /\ Len(hist.began_after) = 1
                /\ ev.op = "modify"
                /\ InScope(ev.file)
                /\ fs[ev.file].readable )
              => /\ Len(changes) = 1
                 /\ KindOf(changes[1]) = "modified"
                 /\ PathOf(changes[1]) = ev.file
                 /\ changes[1].old_hash = Digest(ev.old)
                 /\ changes[1].new_hash = Digest(ev.new)
                 /\ <<ev.file, Digest(ev.new)>> \in HashView(baseline_file.data)

\* the same mapping persisted, or the same absence of one
SameFile(f, g) ==
    /\ f.exists = g.exists
    /\ f.parses = g.parses
    /\ AsMap(f.data) = AsMap(g.data)

\* C6: a cycle that found no change, none of its writes failing, leaves the
\* persisted baseline as it was when the cycle began.
C6_ZeroChangesNoWrite ==
    ( /\ CycleDone
      /\ changes = <<>>
      /\ ~hist.write_failed
      /\ hist.baseline_before.exists /\ hist.baseline_before.parses )
    => SameFile(baseline_file, hist.baseline_before)

\* C7: when a baseline is persisted at process start, no step of the agent
\* whose writes succeed changes it until the first diff has run.
C7_NoOverwriteBeforeFirstDiff ==
    [][ ( /\ hist'.boot_baseline.exists
          /\ hist'.boot_baseline.parses
          /\ ~hist'.first_diff_done
          /\ events' = events )
        => baseline_file' = baseline_file ]_vars

\* C8: an undisturbed cycle that began with no persisted baseline reports no
\* change, writes no report, and leaves the snapshot it took as the baseline.
C8_BootstrapSilent ==
    ( /\ CycleDone
      /\ ~hist.baseline_before.exists
      /\ hist.ops_during = 0 /\ ~hist.write_failed )
    => /\ changes = <<>>
       /\ ~hist.report_written
       /\ baseline_file.exists /\ baseline_file.parses
       /\ HashView(baseline_file.data) = HashView(hist.seen)

\* the filesystem is as the cycle that has just ended found it
Undisturbed == CycleDone /\ hist.ops_during = 0 /\ hist.between = <<>>

\* C12: the snapshot of an undisturbed cycle holds, for every monitored root
\* that is a readable regular file no rule excludes, an entry for that path
\* with its fingerprint.
C12_FileRootInSnapshot ==
    Undisturbed =>
        \A i \in DOMAIN monitored_paths :
            LET p == monitored_paths[i] IN
            ( /\ p \in FilePaths
              /\ fs[p].present /\ fs[p].readable
              /\ ~AnyRuleMatches(excluded_paths, p) )
            => <<p, Digest(fs[p].content)>> \in HashView(hist.seen)

\* C13: when the only disturbances of a cycle were files vanishing while
\* they were observed, the snapshot holds every other file the scan reaches
\* that is readable and that no rule excludes.
C13_OnlyFailedPathOmitted ==
    (CycleDone /\ hist.between = <<>> /\ hist.ops_during = hist.obs_failed) =>
        \A k \in DOMAIN WL :
            ( /\ fs[WL[k]].present /\ fs[WL[k]].readable
              /\ ~AnyRuleMatches(excluded_paths, WL[k]) )
            => <<WL[k], Digest(fs[WL[k]].content)>> \in HashView(hist.seen)

\* C14: a cycle logs the alert exactly when its change count is at least the
\* alert threshold.
C14_AlertIffThreshold ==
    /\ hist.alerted => Len(changes) >= AlertThreshold
    /\ (CycleDone /\ Len(changes) >= AlertThreshold) => hist.alerted

\* the cycle that has just ended had no write fail and found the report
\* store readable
CleanCycle ==
    /\ CycleDone
    /\ ~hist.write_failed
    /\ hist.report_before.exists => hist.report_before.parses

\* the report of the cycle that has just ended, as persisted
ThisReport == report_file.data[Len(report_file.data)]

C16_ReportsAppendOnly ==
    (CleanCycle /\ hist.report_before.exists) =>
        /\ report_file.exists /\ report_file.parses
        /\ Len(report_file.data) >= Len(hist.report_before.data)
        /\ SubSeq(report_file.data, 1, Len(hist.report_before.data))
              = hist.report_before.data

\* C17: replacing a complete persisted baseline leaves a complete one, the
\* previous or the new: no step turns it into a file that does not parse.
C17_BaselineNeverPartial ==
    [][ (baseline_file.exists /\ baseline_file.parses)
        => (baseline_file'.exists /\ baseline_file'.parses) ]_vars

\* C18: a cycle that began with the filesystem as the cycle before left it,
\* and was not disturbed itself, reports no change the cycle before reported
\* already, whether or not the baseline write of that cycle succeeded.
C18_NoStaleRediff ==
    ( /\ CycleDone
      /\ hist.began_quiet /\ hist.began_after = <<>>
      /\ hist.ops_during = 0 )
    => \A i \in DOMAIN changes, j \in DOMAIN hist.began_changes :
          changes[i] # hist.began_changes[j]

\* C19: once the cycle after a cycle with changes has ended, finding nothing
\* and with no write failing, the changes of the earlier cycle are in a
\* persisted report.
C19_ChangesNeverLost ==
    ( /\ CycleDone
      /\ hist.began_changes # <<>>
      /\ changes = <<>>
      /\ ~hist.write_failed )
    => /\ report_file.exists /\ report_file.parses
       /\ \E k \in DOMAIN report_file.data :
             report_file.data[k].changes = hist.began_changes

\* C20: the loop, once running, is left only by a step that clears the
\* running flag, as the signal handler does: no failing cycle stops it.
C20_OnlySignalEndsLoop ==
    [][ (running /\ pc # "stopped" /\ pc' = "stopped") => ~running' ]_vars

\* a step of a scan that digests the next file
DigestStep ==
    /\ pc \in {"scan", "check"}
    /\ idx <= Len(WL)
    /\ idx' = idx + 1
    /\ running' = running
    /\ calculate_file_hash(WL[idx]) # None
    /\ ~AnyRuleMatches(excluded_paths, WL[idx])

\* C21: once a termination signal has cleared the running flag, the scan in
\* progress digests no further file.
C21_SignalStopsScan ==
    [][ ~running => ~DigestStep ]_vars

\* C22: after a termination signal that came while the loop was waiting, no
\* scan cycle is started, and the loop comes to its end.
C22_IdleSignalExits ==
    /\ [][ hist.idle_signal => cycle' = cycle ]_vars
    /\ (hist.idle_signal ~> pc = "stopped")

\* the loop has ended after a signal that came while it was waiting, a cycle
\* done before and more cycles allowed
C22_Witness ==
    /\ hist.idle_signal
    /\ pc = "stopped"
    /\ ~running
    /\ cycle = 1
    /\ cycle < MaxCycles

SnapshotsHeld == {all_hashes, baseline, hist.seen, baseline_file.data}

\* C9: no snapshot built by a scan and no baseline written by the agent holds
\* a path that an exclusion rule matches.
C9_ExcludedNeverSnapshotted ==
    \A s \in SnapshotsHeld :
        \A p \in Keys(s) : ~AnyRuleMatches(excluded_paths, p)

\* two cycles have run; the excluded file below the monitored root is there,
\* readable, its content replaced; the baseline holds the other file only
C9_Witness ==
    /\ CycleDone
    /\ cycle = 2
    /\ AnyRuleMatches(excluded_paths, FileX)
    /\ \E i \in DOMAIN monitored_paths : IsPrefixOf(monitored_paths[i], FileX)
    /\ fs[FileX].present /\ fs[FileX].readable /\ fs[FileX].content = 2
    /\ baseline_file.exists /\ baseline_file.parses
    /\ Keys(baseline_file.data) = {FileA}

=============================================================================
